---- MODULE Spec2Model ----
(***************************************************************************)
(* A model of PresentationGenerator (src/query_base.py and                 *)
(* src/pdf_to_ppt_backup.py): the prompt->response cache of                *)
(* generate_response, the sanitizer _clean_response, the bullet extractor  *)
(* _extract_bullet_points, the slides of generate_presentation and the     *)
(* saving of the deck; and of PDFExtractor (src/pdf_to_ppt_backup.py).     *)
(*                                                                         *)
(* Text is a sequence of one-character strings, so that the regular        *)
(* expressions of the source are computed character by character.  The     *)
(* bullet glyph U+2022 is the character "BULLET".                          *)
(***************************************************************************)
EXTENDS Integers, Sequences, FiniteSets, TLC

VARIABLES pc, response_cache, requests, history, text, result, segs,
          slides, bullet_points, files, pdf, extractor, output_path

vars == <<pc, response_cache, requests, history, text, result, segs,
          slides, bullet_points, files, pdf, extractor, output_path>>

\* the state of the deck, of the file system and of the PDF extractor
deckVars == <<slides, bullet_points, files, pdf, extractor, output_path>>

-----------------------------------------------------------------------------
(* Bounds of the model.                                                    *)

\* number of generate_response calls in one run
MaxCalls == 3
\* number of lines of an input text of the sanitizer
MaxLines == 3
\* number of plain and emphasised segments of an input text of the sanitizer
MaxFrags == 3
\* number of lines of an input text of the bullet extractor
MaxBulletLines == 2
\* number of fragments concatenated into the prompt of a fallback run
MaxPromptFrags == 2
MaxRawFrags == 4
MaxExampleLines == 5
MaxPages == 3

-----------------------------------------------------------------------------
(* Characters and strings, as Python's str and re treat them.              *)

\* \s of re and the characters str.strip() removes
Whitespace == {" ", "\n", "\t", "\r"}

\* \d of re
Digits == {"0", "1", "2", "3", "4", "5", "6", "7", "8", "9"}

\* the character class [•\-\*] of _extract_bullet_points
BulletGlyphs == {"BULLET", "-", "*"}

\* str.lower() on one character
LowerChar(c) ==
    CASE c = "A" -> "a" [] c = "B" -> "b" [] c = "C" -> "c" [] c = "D" -> "d"
      [] c = "E" -> "e" [] c = "F" -> "f" [] c = "G" -> "g" [] c = "H" -> "h"
      [] c = "I" -> "i" [] c = "J" -> "j" [] c = "K" -> "k" [] c = "L" -> "l"
      [] c = "M" -> "m" [] c = "N" -> "n" [] c = "O" -> "o" [] c = "P" -> "p"
      [] c = "Q" -> "q" [] c = "R" -> "r" [] c = "S" -> "s" [] c = "T" -> "t"
      [] c = "U" -> "u" [] c = "V" -> "v" [] c = "W" -> "w" [] c = "X" -> "x"
      [] c = "Y" -> "y" [] c = "Z" -> "z" [] OTHER -> c

\* str.lower()
Lower(s) == [i \in 1..Len(s) |-> LowerChar(s[i])]

\* s[i:].startswith(p), i counted from 1
MatchAt(s, i, p) ==
    /\ i >= 1
    /\ i + Len(p) - 1 <= Len(s)
    /\ \A k \in 1..Len(p) : s[i + k - 1] = p[k]

\* s.startswith(p)
StartsWith(s, p) == MatchAt(s, 1, p)

\* p in s
Contains(s, p) == \E i \in 1..(Len(s) - Len(p) + 1) : MatchAt(s, i, p)

\* the least element of a non-empty set of integers
Min(S) == CHOOSE x \in S : \A y \in S : x <= y

\* s.find(p, i): the first index >= i where p occurs, 0 when there is none
Find(s, p, i) ==
    LET hits == {j \in i..(Len(s) - Len(p) + 1) : MatchAt(s, j, p)}
    IN  IF hits = {} THEN 0 ELSE Min(hits)

RECURSIVE SplitFrom(_, _, _)
\* the pieces of s[i:] between occurrences of the character sep
SplitFrom(s, sep, i) ==
    LET j == Find(s, <<sep>>, i)
    IN  IF j = 0 THEN <<SubSeq(s, i, Len(s))>>
        ELSE <<SubSeq(s, i, j - 1)>> \o SplitFrom(s, sep, j + 1)

\* s.split(sep) for a one-character separator
Split(s, sep) == SplitFrom(s, sep, 1)

RECURSIVE Join(_, _)
\* sep.join(lines)
Join(lines, sep) ==
    IF Len(lines) = 0 THEN <<>>
    ELSE IF Len(lines) = 1 THEN lines[1]
    ELSE lines[1] \o <<sep>> \o Join(Tail(lines), sep)

\* s.strip()
Strip(s) ==
    LET keep == {i \in 1..Len(s) : s[i] \notin Whitespace}
    IN  IF keep = {} THEN <<>>
        ELSE SubSeq(s, Min(keep), CHOOSE x \in keep : \A y \in keep : y <= x)

RECURSIVE ReplaceFrom(_, _, _, _)
\* s[i:].replace(old, new)
ReplaceFrom(s, old, new, i) ==
    LET j == Find(s, old, i)
    IN  IF j = 0 THEN SubSeq(s, i, Len(s))
        ELSE SubSeq(s, i, j - 1) \o new \o ReplaceFrom(s, old, new, j + Len(old))

\* Replace with only the first occurrence replaced
Replace_FirstOnly(s, old, new) ==
    LET j == Find(s, old, 1)
    IN  IF j = 0 THEN s
        ELSE SubSeq(s, 1, j - 1) \o new \o SubSeq(s, j + Len(old), Len(s))

\* s.replace(old, new)
Replace(s, old, new) == ReplaceFrom(s, old, new, 1)

-----------------------------------------------------------------------------
(* The regular expressions of _clean_response and _extract_bullet_points.  *)

\* where the closing marker of a non-greedy (.*?) started at j is found:
\* the first occurrence of mark at or after j with no newline before it
\* ('.' does not match a newline), 0 when there is none
CloseAt(s, mark, j) ==
    LET e == Find(s, mark, j)
    IN  IF e = 0 THEN 0
        ELSE IF \E m \in j..(e - 1) : s[m] = "\n" THEN 0
        ELSE e

RECURSIVE SubWrapFrom(_, _, _)
\* re.sub(mark (.*?) mark, r'\1', s) applied to s[i:]: the scan goes to the
\* next opening marker b; if a closing marker follows on the same line the
\* match is replaced by its group, otherwise the scan resumes at b + 1
SubWrapFrom(s, mark, i) ==
    LET b == Find(s, mark, i)
        e == CloseAt(s, mark, b + Len(mark))
    IN  IF b = 0 THEN SubSeq(s, i, Len(s))
        ELSE IF e # 0
             THEN SubSeq(s, i, b - 1) \o SubSeq(s, b + Len(mark), e - 1)
                      \o SubWrapFrom(s, mark, e + Len(mark))
             ELSE SubSeq(s, i, b) \o SubWrapFrom(s, mark, b + 1)

\* re.sub(r'\*\*(.*?)\*\*', r'\1', s)
SubBold(s) == SubWrapFrom(s, <<"*", "*">>, 1)

\* SubItalic with the substitution left out
SubItalic_Kept(s) == s

\* re.sub(r'\*(.*?)\*', r'\1', s)
SubItalic(s) == SubWrapFrom(s, <<"*">>, 1)

\* re.sub(r'^.*?<frag>.*$', '', s, flags=re.MULTILINE): every line that
\* contains frag becomes the empty line, its newline stays
SubEchoLine(s, frag) ==
    LET lines == Split(s, "\n")
    IN  Join([i \in 1..Len(lines) |->
                 IF Contains(lines[i], frag) THEN <<>> ELSE lines[i]], "\n")

RECURSIVE CollapseFrom(_, _)
\* re.sub(r'\s{2,}', ' ', s) applied to s[i:]: every maximal run of two or
\* more whitespace characters becomes one space
CollapseFrom(s, i) ==
    LET runs == {j \in i..(Len(s) - 1) : s[j] \in Whitespace /\ s[j + 1] \in Whitespace}
        b == Min(runs)
        rest == {j \in (b + 1)..Len(s) : s[j] \notin Whitespace}
        e == IF rest = {} THEN Len(s) + 1 ELSE Min(rest)
    IN  IF runs = {} THEN SubSeq(s, i, Len(s))
        ELSE SubSeq(s, i, b - 1) \o <<" ">> \o CollapseFrom(s, e)

\* re.sub(r'\s{2,}', ' ', s)
CollapseWhitespace(s) == CollapseFrom(s, 1)

\* SubBulletGlyph with the whitespace after the glyph left in place
SubBulletGlyph_KeepsSpace(s) ==
    IF Len(s) >= 1 /\ s[1] \in BulletGlyphs THEN SubSeq(s, 2, Len(s)) ELSE s

\* re.sub(r'^[•\-\*]\s*', '', s)
SubBulletGlyph(s) ==
    IF Len(s) >= 1 /\ s[1] \in BulletGlyphs
    THEN LET rest == {j \in 2..Len(s) : s[j] \notin Whitespace}
         IN  IF rest = {} THEN <<>> ELSE SubSeq(s, Min(rest), Len(s))
    ELSE s

\* SubNumbering with the substitution left out
SubNumbering_Kept(s) == s

\* re.sub(r'^\d+\.\s*', '', s)
SubNumbering(s) ==
    LET nondig == {j \in 1..Len(s) : s[j] \notin Digits}
        d == IF nondig = {} THEN Len(s) + 1 ELSE Min(nondig)
    IN  IF d >= 2 /\ d <= Len(s) /\ s[d] = "."
        THEN LET rest == {j \in (d + 1)..Len(s) : s[j] \notin Whitespace}
             IN  IF rest = {} THEN <<>> ELSE SubSeq(s, Min(rest), Len(s))
        ELSE s

-----------------------------------------------------------------------------
(* PresentationGenerator._clean_response                                   *)

model_eq == <<"m","o","d","e","l","=">>
created_at_eq == <<"c","r","e","a","t","e","d","_","a","t","=">>
done_eq == <<"d","o","n","e","=">>
message_eq == <<"m","e","s","s","a","g","e","=">>
ExamplePrefix == <<"E","x","a","m","p","l","e",":">>
RealWorldPhrase == <<"i","n"," ","r","e","a","l","-","w","o","r","l","d"," ","a","p","p","l","i","c","a","t","i","o","n","s">>
EscapedNewline == <<"\\", "n">>

\* the two emphasis substitutions
RemoveMarkdown(s) == SubItalic(SubBold(s))

\* the four API-echo substitutions
RemoveEchoLines(s) ==
    SubEchoLine(SubEchoLine(SubEchoLine(SubEchoLine(s, model_eq), created_at_eq), done_eq), message_eq)

\* text.replace('\\n', '\n') followed by re.sub(r'\s{2,}', ' ', text)
NormalizeSpaces(s) == CollapseWhitespace(Replace(s, EscapedNewline, <<"\n">>))

\* KeepLine with the Example: test left out
KeepLine_KeepsExamples(line) == line # <<>> /\ ~Contains(line, RealWorldPhrase)

\* the condition under which the final loop keeps a stripped line
KeepLine(line) ==
    /\ line # <<>>
    /\ ~StartsWith(line, ExamplePrefix)
    /\ ~Contains(line, RealWorldPhrase)

\* the final loop: strip every line and keep the ones that pass the filters
CleanLines(s) ==
    LET stripped == [i \in 1..Len(Split(s, "\n")) |-> Strip(Split(s, "\n")[i])]
    IN  SelectSeq(stripped, KeepLine)

\* _clean_response with the echo substitutions before the emphasis ones
_clean_response_EchoFirst(s) == Join(CleanLines(NormalizeSpaces(RemoveMarkdown(RemoveEchoLines(s)))), "\n")

_clean_response(s) == Join(CleanLines(NormalizeSpaces(RemoveEchoLines(RemoveMarkdown(s)))), "\n")

-----------------------------------------------------------------------------
(* PresentationGenerator._extract_bullet_points                            *)

\* what the loop body makes of one stripped, non-empty line
StripBulletLine(line) == SubItalic(SubBold(SubNumbering(SubBulletGlyph(line))))

\* _extract_bullet_points that returns at most three bullet points
_extract_bullet_points_FirstThree(s) ==
    LET lines == Split(s, "\n")
        stripped == SelectSeq([i \in 1..Len(lines) |-> Strip(lines[i])], LAMBDA l : l # <<>>)
        cleaned == [i \in 1..Len(stripped) |-> StripBulletLine(stripped[i])]
        kept == SelectSeq(cleaned, LAMBDA l : l # <<>>)
    IN  SubSeq(kept, 1, Min({3, Len(kept)}))

_extract_bullet_points(s) ==
    LET lines == Split(s, "\n")
        stripped == SelectSeq([i \in 1..Len(lines) |-> Strip(lines[i])], LAMBDA l : l # <<>>)
        cleaned == [i \in 1..Len(stripped) |-> StripBulletLine(stripped[i])]
    IN  SelectSeq(cleaned, LAMBDA l : l # <<>>)

-----------------------------------------------------------------------------
(* PresentationGenerator.generate_response                                 *)

FallbackBullets == <<"BULLET"," ","I","m","p","o","r","t","a","n","t"," ","h","i","s","t","o","r","i","c","a","l"," ","m","i","l","e","s","t","o","n","e","\n","BULLET"," ","K","e","y"," ","d","e","v","e","l","o","p","m","e","n","t"," ","i","n"," ","A","I","\n","BULLET"," ","S","i","g","n","i","f","i","c","a","n","t"," ","i","n","n","o","v","a","t","i","o","n">>
FallbackOneLine == <<"T","h","e"," ","h","i","s","t","o","r","y"," ","o","f"," ","a","r","t","i","f","i","c","i","a","l"," ","i","n","t","e","l","l","i","g","e","n","c","e"," ","s","h","o","w","c","a","s","e","s"," ","h","u","m","a","n","i","t","y","'","s"," ","q","u","e","s","t"," ","t","o"," ","c","r","e","a","t","e"," ","m","a","c","h","i","n","e","s"," ","t","h","a","t"," ","c","a","n"," ","t","h","i","n","k"," ","a","n","d"," ","l","e","a","r","n",".">>
FallbackConclusion == <<"T","h","e"," ","h","i","s","t","o","r","y"," ","o","f"," ","A","I"," ","d","e","m","o","n","s","t","r","a","t","e","s"," ","o","u","r"," ","c","o","n","t","i","n","u","o","u","s"," ","p","r","o","g","r","e","s","s"," ","i","n"," ","c","r","e","a","t","i","n","g"," ","i","n","t","e","l","l","i","g","e","n","t"," ","s","y","s","t","e","m","s","."," ","F","r","o","m"," ","e","a","r","l","y"," ","r","u","l","e","-","b","a","s","e","d"," ","s","y","s","t","e","m","s"," ","t","o"," ","m","o","d","e","r","n"," ","n","e","u","r","a","l"," ","n","e","t","w","o","r","k","s",","," ","e","a","c","h"," ","a","d","v","a","n","c","e","m","e","n","t"," ","b","r","i","n","g","s"," ","u","s"," ","c","l","o","s","e","r"," ","t","o"," ","m","a","c","h","i","n","e","s"," ","t","h","a","t"," ","c","a","n"," ","t","r","u","l","y"," ","t","h","i","n","k",".">>
FallbackGeneric == <<"C","o","n","t","e","n","t"," ","g","e","n","e","r","a","t","i","o","n"," ","f","a","i","l","e","d","."," ","P","l","e","a","s","e"," ","t","r","y"," ","a","g","a","i","n"," ","w","i","t","h"," ","a"," ","d","i","f","f","e","r","e","n","t"," ","p","r","o","m","p","t",".">>
kw_bullet_points == <<"b","u","l","l","e","t"," ","p","o","i","n","t","s">>
kw_one_line == <<"o","n","e"," ","l","i","n","e">>
kw_one_clear == <<"o","n","e"," ","c","l","e","a","r">>
kw_conclusion == <<"c","o","n","c","l","u","s","i","o","n">>
ContentOpen == <<"c","o","n","t","e","n","t","=","'">>

\* a Python value that is a str
Str(s) == [type |-> "str", val |-> s]

\* the Python value None
None == [type |-> "NoneType", val |-> <<>>]

\* re.search(r"content='(.*?)'", s, re.DOTALL): group 1 of the first match,
\* s itself when there is no match (the code keeps result unchanged then)
SearchContent(s) ==
    LET b == Find(s, ContentOpen, 1)
        e == Find(s, <<"'">>, b + Len(ContentOpen))
    IN  IF b = 0 \/ e = 0 THEN s ELSE SubSeq(s, b + Len(ContentOpen), e - 1)

\* ExtractPayload with the content='...' match applied to every text
ExtractPayload_SearchAnyText(r) ==
    IF ~r.isdict /\ r.has_message /\ ~r.msg_isdict /\ r.msg_has_content
    THEN r.content
    ELSE IF r.isdict
         THEN IF r.has_message
              THEN IF r.msg_has_content THEN r.content ELSE Str(SearchContent(r.msg_str))
              ELSE Str(SearchContent(r.str))
         ELSE Str(SearchContent(r.str))

\* the if/elif chain that extracts `result` from the response of ollama.chat
ExtractPayload(r) ==
    IF ~r.isdict /\ r.has_message /\ ~r.msg_isdict /\ r.msg_has_content
    THEN r.content
    ELSE IF r.isdict
         THEN IF r.has_message
              THEN IF r.msg_has_content THEN r.content ELSE Str(r.msg_str)
              ELSE Str(SearchContent(r.str))
         ELSE Str(r.str)

\* Caught with a handler `except ConnectionError`
Caught_ConnectionOnly(exc) == exc = "ConnectionError"

\* the exception classes the handler `except Exception` catches
Caught(exc) == exc \in {"ConnectionError", "ResponseError", "TypeError"}

\* TryBlock with the payload returned as it is, not cleaned
TryBlock_Unclean(outcome) ==
    IF outcome.raises # "none"
    THEN [raised |-> outcome.raises, payload |-> None, value |-> <<>>]
    ELSE IF ExtractPayload(outcome.response).type # "str"
         THEN [raised |-> "TypeError", payload |-> ExtractPayload(outcome.response), value |-> <<>>]
         ELSE [raised |-> "none", payload |-> ExtractPayload(outcome.response),
               value |-> ExtractPayload(outcome.response).val]

\* the body of the try block for one outcome of ollama.chat: the cleaned
\* result, or the exception raised by the request or by re.sub on a payload
\* that is not a str
TryBlock(outcome) ==
    IF outcome.raises # "none"
    THEN [raised |-> outcome.raises, payload |-> None, value |-> <<>>]
    ELSE LET payload == ExtractPayload(outcome.response)
         IN  IF payload.type # "str"
             THEN [raised |-> "TypeError", payload |-> payload, value |-> <<>>]
             ELSE [raised |-> "none", payload |-> payload, value |-> _clean_response(payload.val)]

\* Fallback with the conclusion test first and no lower-casing
Fallback_ConclusionFirst(prompt) ==
    IF Contains(prompt, kw_conclusion) THEN FallbackConclusion
    ELSE IF Contains(prompt, kw_bullet_points) THEN FallbackBullets
    ELSE IF Contains(prompt, kw_one_line) \/ Contains(prompt, kw_one_clear) THEN FallbackOneLine
    ELSE FallbackGeneric

\* the if/elif chain of the except block
Fallback(prompt) ==
    IF Contains(Lower(prompt), kw_bullet_points) THEN FallbackBullets
    ELSE IF Contains(Lower(prompt), kw_one_line) \/ Contains(Lower(prompt), kw_one_clear) THEN FallbackOneLine
    ELSE IF Contains(Lower(prompt), kw_conclusion) THEN FallbackConclusion
    ELSE FallbackGeneric

\* CacheHit with the cache check left out
CacheHit_Never(cache, prompt) == FALSE

\* `if prompt in self.response_cache`
CacheHit(cache, prompt) == prompt \in DOMAIN cache

\* how a call that missed the cache ends: a returned str, or an exception
\* that no handler caught
MissResult(prompt, try) ==
    IF try.raised = "none" THEN [kind |-> "return", ret |-> try.value]
    ELSE IF Caught(try.raised) THEN [kind |-> "return", ret |-> Fallback(prompt)]
    ELSE [kind |-> "raise", ret |-> <<>>]

\* CacheAfterMiss with the fallback stored like a successful result
CacheAfterMiss_StoresFallback(cache, prompt, try) ==
    [q \in DOMAIN cache \cup {prompt} |->
        IF q = prompt THEN MissResult(prompt, try).ret ELSE cache[q]]

\* self.response_cache after a call that missed the cache: the assignment
\* self.response_cache[prompt] = result is reached only when nothing raised
CacheAfterMiss(cache, prompt, try) ==
    IF try.raised = "none"
    THEN [q \in DOMAIN cache \cup {prompt} |-> IF q = prompt THEN try.value ELSE cache[q]]
    ELSE cache

\* one call generate_response(prompt); outcome is what ollama.chat does if it
\* is called.  history records what the caller observes of each call.
GenerateResponse(prompt, outcome) ==
    /\ pc = "run"
    /\ Len(history) < MaxCalls
    /\ IF CacheHit(response_cache, prompt)
       THEN /\ UNCHANGED <<response_cache, requests>>
            /\ history' = Append(history,
                   [prompt |-> prompt, outcome |-> outcome, hit |-> TRUE,
                    raised |-> "none", payload |-> None,
                    kind |-> "return", ret |-> response_cache[prompt],
                    nreq |-> Len(requests), cached |-> TRUE])
       ELSE LET try == TryBlock(outcome)
                res == MissResult(prompt, try)
            IN  /\ requests' = Append(requests, prompt)
                /\ response_cache' = CacheAfterMiss(response_cache, prompt, try)
                /\ history' = Append(history,
                       [prompt |-> prompt, outcome |-> outcome, hit |-> FALSE,
                        raised |-> try.raised, payload |-> try.payload,
                        kind |-> res.kind, ret |-> res.ret,
                        nreq |-> Len(requests) + 1,
                        cached |-> prompt \in DOMAIN CacheAfterMiss(response_cache, prompt, try)])
    /\ UNCHANGED <<pc, text, result, segs>>
    /\ UNCHANGED deckVars

-----------------------------------------------------------------------------
(* The runs of one generator: prompts and model outcomes.                  *)

PromptBullets == <<"L","i","s","t"," ","b","u","l","l","e","t"," ","p","o","i","n","t","s">>
PromptPlain == <<"E","x","p","l","a","i","n"," ","A","I">>
TextBold == <<"*","*","A","*","*"," ","b">>
TextPlain == <<"A"," ","b">>
TextC == <<"C">>
MsgStrQuoted == <<"c","o","n","t","e","n","t","=","'","C","'">>
DictReprReply == <<"{","'","r","e","p","l","y","'",":"," ","R","e","p","l","y","(","c","o","n","t","e","n","t","=","'","A"," ","b","'",")","}">>
DictReprPlain == <<"{","'","r","e","p","l","y","'",":"," ","'","C","'","}">>
ObjRepr == <<"R","e","p","l","y","(","c","o","n","t","e","n","t","=","'","C","'",")">>

Prompts == {PromptBullets, PromptPlain}

\* a response object; str and msg_str are what str() gives for the response
\* and for its message
Response(isdict, has_message, msg_isdict, msg_has_content, content, msg_str, str) ==
    [isdict |-> isdict, has_message |-> has_message, msg_isdict |-> msg_isdict,
     msg_has_content |-> msg_has_content, content |-> content,
     msg_str |-> msg_str, str |-> str]

Responses ==
    { \* an object with .message.content (ollama.ChatResponse)
      Response(FALSE, TRUE, FALSE, TRUE, Str(TextBold), <<>>, <<>>),
      Response(FALSE, TRUE, FALSE, TRUE, Str(TextC), <<>>, <<>>),
      Response(FALSE, TRUE, FALSE, TRUE, None, <<>>, <<>>),
      \* a dict {'message': {'content': ...}}
      Response(TRUE, TRUE, TRUE, TRUE, Str(TextPlain), <<>>, <<>>),
      \* a dict {'message': <object with .content>}
      Response(TRUE, TRUE, FALSE, TRUE, Str(TextC), <<>>, <<>>),
      \* a dict {'message': "content='C'"}
      Response(TRUE, TRUE, FALSE, FALSE, None, MsgStrQuoted, MsgStrQuoted),
      \* a dict without 'message'
      Response(TRUE, FALSE, FALSE, FALSE, None, <<>>, DictReprReply),
      Response(TRUE, FALSE, FALSE, FALSE, None, <<>>, DictReprPlain),
      \* an object without .message
      Response(FALSE, FALSE, FALSE, FALSE, None, <<>>, ObjRepr) }

NoResponse == Response(FALSE, FALSE, FALSE, FALSE, None, <<>>, <<>>)

\* ollama.chat raises: the model endpoint is unreachable
Unreachable == [raises |-> "ConnectionError", response |-> NoResponse]

Outcomes == {Unreachable} \cup {[raises |-> "none", response |-> r] : r \in Responses}

Init ==
    /\ pc = "run"
    /\ response_cache = << >>
    /\ requests = << >>
    /\ history = << >>
    /\ text = << >>
    /\ result = << >>
    /\ segs = << >>
    /\ slides = << >>
    /\ bullet_points = << >>
    /\ files = {}
    /\ pdf = << >>
    /\ extractor = [constructed |-> FALSE]
    /\ output_path = None

Next == \E prompt \in Prompts, outcome \in Outcomes : GenerateResponse(prompt, outcome)

Spec == Init /\ [][Next]_vars

-----------------------------------------------------------------------------
(* Runs in which one prompt is answered by a failing model.                *)

FragBulletPoints == <<"B","u","l","l","e","t"," ","P","o","i","n","t","s">>
FragBullet == <<"b","u","l","l","e","t">>
FragPoints == <<" ","p","o","i","n","t","s">>
FragOneLine == <<"o","n","e"," ","l","i","n","e">>
FragOneClear == <<"O","N","E"," ","C","L","E","A","R">>
FragConclusion == <<"C","o","n","c","l","u","s","i","o","n">>
FragOther == <<"x">>

PromptFrags == {FragBulletPoints, FragBullet, FragPoints, FragOneLine, FragOneClear, FragConclusion, FragOther}

\* the sequences of 1..n elements of S
SeqsUpTo(S, n) == UNION {[1..k -> S] : k \in 1..n}

RECURSIVE Concat(_)
\* ''.join(parts)
Concat(parts) == IF Len(parts) = 0 THEN <<>> ELSE Head(parts) \o Concat(Tail(parts))

KeywordPrompts == {Concat(parts) : parts \in SeqsUpTo(PromptFrags, MaxPromptFrags)}

\* the model is unreachable, answers with a content that is not a str, or
\* answers properly
FallbackOutcomes ==
    { Unreachable,
      [raises |-> "none", response |-> Response(FALSE, TRUE, FALSE, TRUE, None, <<>>, <<>>)],
      [raises |-> "none", response |-> Response(FALSE, TRUE, FALSE, TRUE, Str(TextC), <<>>, <<>>)] }

InitFallback ==
    /\ pc = "run"
    /\ response_cache = << >>
    /\ requests = << >>
    /\ history = << >>
    /\ text \in KeywordPrompts
    /\ result = << >>
    /\ segs = << >>
    /\ slides = << >>
    /\ bullet_points = << >>
    /\ files = {}
    /\ pdf = << >>
    /\ extractor = [constructed |-> FALSE]
    /\ output_path = None

NextFallback == \E outcome \in FallbackOutcomes : GenerateResponse(text, outcome)

SpecFallback == InitFallback /\ [][NextFallback]_vars

-----------------------------------------------------------------------------
(* Runs of the sanitizer on one input text.                                *)

LineA == <<"A">>
LineBc == <<"B"," ","c">>
LineEcho == <<"m","o","d","e","l","=","f","o","o">>
LineExample == <<"E","x","a","m","p","l","e",":"," ","x">>
LineEmpty == <<>>
LineWide == <<"B"," "," ","c">>
LineIndented == <<" ","A">>
LineRealWorld == <<"d"," ","i","n"," ","r","e","a","l","-","w","o","r","l","d"," ","a","p","p","l","i","c","a","t","i","o","n","s">>

LineTexts == {LineA, LineBc, LineEcho, LineExample, LineEmpty, LineWide, LineIndented, LineRealWorld}

\* an input given line by line
LineInputs == SeqsUpTo({[kind |-> "line", s |-> l] : l \in LineTexts}, MaxLines)

PlainTexts == {<<"A">>, <<" ">>, <<"\n">>, <<"d","e","l","=">>}
InnerTexts == {<<"b">>, <<"c"," ","d">>, <<"c"," "," ","d">>, <<" ","e">>, <<"m","o">>}

\* an input given as plain text and **bold** and *italic* wrappers
MarkupInputs ==
    SeqsUpTo({[kind |-> "plain", s |-> t] : t \in PlainTexts}
                 \cup {[kind |-> k, s |-> t] : k \in {"bold", "italic"}, t \in InnerTexts},
             MaxFrags)

RawFrags == {<<"*","a">>, <<"a","*">>, <<"*">>, <<"\n">>, <<" ">>, <<"\\","n">>, <<"\\">>, <<"n">>}

\* an input given as raw text, with unmatched markers and escaped newlines
RawInputs == SeqsUpTo({[kind |-> "raw", s |-> t] : t \in RawFrags}, MaxRawFrags)

\* the raw text of one segment
RenderSeg(g) ==
    CASE g.kind = "bold" -> <<"*", "*">> \o g.s \o <<"*", "*">>
      [] g.kind = "italic" -> <<"*">> \o g.s \o <<"*">>
      [] OTHER -> g.s

\* the raw text of an input
Render(input) ==
    IF \A i \in 1..Len(input) : input[i].kind = "line"
    THEN Join([i \in 1..Len(input) |-> input[i].s], "\n")
    ELSE Concat([i \in 1..Len(input) |-> RenderSeg(input[i])])

InitClean ==
    /\ pc = "clean"
    /\ response_cache = << >>
    /\ requests = << >>
    /\ history = << >>
    /\ segs \in LineInputs \cup MarkupInputs \cup RawInputs
    /\ text = Render(segs)
    /\ result = << >>
    /\ slides = << >>
    /\ bullet_points = << >>
    /\ files = {}
    /\ pdf = << >>
    /\ extractor = [constructed |-> FALSE]
    /\ output_path = None

\* result = self._clean_response(text)
CleanResponse ==
    /\ pc = "clean"
    /\ result' = _clean_response(text)
    /\ pc' = "cleaned"
    /\ UNCHANGED <<response_cache, requests, history, text, segs>>
    /\ UNCHANGED deckVars

\* result = self._clean_response(result): the sanitizer applied to its own
\* output
CleanAgain ==
    /\ pc = "cleaned"
    /\ text' = result
    /\ result' = _clean_response(result)
    /\ pc' = "recleaned"
    /\ UNCHANGED <<response_cache, requests, history, segs>>
    /\ UNCHANGED deckVars

NextClean == CleanResponse \/ CleanAgain

SpecClean == InitClean /\ [][NextClean]_vars

-----------------------------------------------------------------------------
(* Runs of the bullet extractor on one input text.                         *)

GlyphPrefixes == {<<>>, <<"-", " ">>, <<"BULLET", " ">>, <<"*", " ">>}
NumberPrefixes == {<<>>, <<"1", ".", " ">>}
Bodies == {<<>>, <<"A">>, <<"3", " ", "d">>, <<"-", " ", "A">>, <<"2", ".", " ", "A">>, <<"*", "*", "-", " ", "A", "*", "*">>}

\* an input given line by line, every line as glyph prefix, numbering prefix
\* and the text that follows them
BulletInputs ==
    SeqsUpTo([glyph : GlyphPrefixes, number : NumberPrefixes, body : Bodies], MaxBulletLines)

\* lines that carry one prefix style each, and the empty line
ExampleLines ==
    {[glyph |-> <<"BULLET", " ">>, number |-> <<>>, body |-> <<"A">>],
     [glyph |-> <<"-", " ">>, number |-> <<>>, body |-> <<"B">>],
     [glyph |-> <<>>, number |-> <<"1", ".", " ">>, body |-> <<"C">>],
     [glyph |-> <<"*">>, number |-> <<>>, body |-> <<"3", " ", "d">>],
     [glyph |-> <<>>, number |-> <<"1", "2", ".">>, body |-> <<"A">>],
     [glyph |-> <<>>, number |-> <<>>, body |-> <<>>]}

\* an input of up to MaxExampleLines such lines
ExampleInputs == SeqsUpTo(ExampleLines, MaxExampleLines)

\* the raw text of an input of the extractor
RenderBullets(input) ==
    Join([i \in 1..Len(input) |-> input[i].glyph \o input[i].number \o input[i].body], "\n")

InitBullets ==
    /\ pc = "extract"
    /\ response_cache = << >>
    /\ requests = << >>
    /\ history = << >>
    /\ segs \in BulletInputs \cup ExampleInputs
    /\ text = RenderBullets(segs)
    /\ result = << >>
    /\ slides = << >>
    /\ bullet_points = << >>
    /\ files = {}
    /\ pdf = << >>
    /\ extractor = [constructed |-> FALSE]
    /\ output_path = None

\* bullet_points = self._extract_bullet_points(text)
ExtractBulletPoints ==
    /\ pc = "extract"
    /\ result' = _extract_bullet_points(text)
    /\ pc' = "extracted"
    /\ UNCHANGED <<response_cache, requests, history, text, segs>>
    /\ UNCHANGED deckVars

NextBullets == ExtractBulletPoints

SpecBullets == InitBullets /\ [][NextBullets]_vars

-----------------------------------------------------------------------------
(* The slides: _add_paragraph, the slide generators, generate_presentation *)
(* and save.  A slide is its layout, the text of its header and the        *)
(* paragraphs that _add_paragraph added to its text box; colours, sizes    *)
(* and the date subtitle of the title slide are left out.                  *)

Letters ==
    {"a","b","c","d","e","f","g","h","i","j","k","l","m","n","o","p","q","r","s","t","u","v","w","x","y","z",
     "A","B","C","D","E","F","G","H","I","J","K","L","M","N","O","P","Q","R","S","T","U","V","W","X","Y","Z"}

\* c.isalnum() with letters only
isalnum_LettersOnly(c) == c \in Letters

\* c.isalnum()
isalnum(c) == c \in Letters \cup Digits

PresentationSuffix == <<"_","p","r","e","s","e","n","t","a","t","i","o","n",".","p","p","t","x">>

\* "".join(c if c.isalnum() else "_" for c in self.topic) + "_presentation.pptx"
DefaultPath(topic) ==
    [i \in 1..Len(topic) |-> IF isalnum(topic[i]) THEN topic[i] ELSE "_"] \o PresentationSuffix

\* ChoosePath with the given path ignored
ChoosePath_AlwaysDefault(path, topic) == DefaultPath(topic)

\* `if not output_path:` the default path is used for None and for ""
ChoosePath(path, topic) ==
    IF path.type = "NoneType" \/ path.val = <<>>
    THEN DefaultPath(topic)
    ELSE path.val

\* f"• {text}" when is_bullet, else text
ParagraphText(t, is_bullet) == IF is_bullet THEN <<"BULLET", " ">> \o t ELSE t

\* the paragraph _add_paragraph adds
Paragraph(t, level, is_bullet) == [text |-> ParagraphText(t, is_bullet), level |-> level]

\* f"Example: {text} in real-world applications"
ExampleSubBullet(t) == <<"E","x","a","m","p","l","e",":"," ">> \o t \o <<" ","i","n"," ","r","e","a","l","-","w","o","r","l","d"," ","a","p","p","l","i","c","a","t","i","o","n","s">>

\* BulletParagraphs without the example sub-bullets
BulletParagraphs_NoExamples(points) ==
    [k \in 1..Len(points) |-> Paragraph(points[k], 0, TRUE)]

\* the loop over the bullet points: the bullet at level 0, then its example
\* sub-bullet at level 1
BulletParagraphs(points) ==
    [k \in 1..(2 * Len(points)) |->
        IF k % 2 = 1 THEN Paragraph(points[(k + 1) \div 2], 0, TRUE)
        ELSE Paragraph(ExampleSubBullet(points[k \div 2]), 1, TRUE)]

\* a slide with its header and the paragraphs of its text box
Slide(layout, title, body) == [layout |-> layout, title |-> title, body |-> body]

TitlePreview == <<"P","R","E","V","I","E","W">>
TitleAim == <<"A","I","M">>
TitleConclusion == <<"C","O","N","C","L","U","S","I","O","N">>
TitleThankYou == <<"J","A","I"," ","H","I","N","D">>
ThankYouText == <<"D","e","v","e","l","o","p","e","d"," ","b","y"," ","L","L","M","\n","\n","T","h","a","n","k"," ","y","o","u"," ","f","o","r"," ","y","o","u","r"," ","a","t","t","e","n","t","i","o","n","!">>

\* the first prompt of generate_preview_slide
PreviewPrompt(topic) == <<"G","e","n","e","r","a","t","e"," ","3","-","5"," ","i","m","p","o","r","t","a","n","t"," ","b","u","l","l","e","t"," ","p","o","i","n","t","s"," ","r","e","l","a","t","e","d"," ","t","o"," ">> \o topic \o <<"."," ","K","e","e","p"," ","e","a","c","h"," ","p","o","i","n","t"," ","c","o","n","c","i","s","e"," ","(","1","-","2"," ","s","e","n","t","e","n","c","e","s",")","."," ","a","n","d"," ","m","a","k","e"," ","s","u","r","e"," ","t","h","e"," ","m","i","n","i","m","u","m"," ","w","o","r","d","s"," ","(","8","0"," ","-"," ","1","0","0",")"," ","a","n","d"," ","m","a","x","i","m","u","m"," ","w","o","r","d","s"," ","w","i","l","l"," ","b","e"," ","(","1","5","0"," ","-"," ","2","0","0",")">>

\* the prompt of the retry
RetryPrompt(topic) == <<"G","e","n","e","r","a","t","e"," ","a","t"," ","l","e","a","s","t"," ","3"," ","k","e","y"," ","b","u","l","l","e","t"," ","p","o","i","n","t","s"," ","o","f"," "," ","'">> \o topic \o <<"'",".","O","n","l","y"," ","n","a","m","e"," ","t","h","e"," ","t","o","p","i","c","s"," ","d","o","n","t"," ","e","x","p","l","a","i","n"," ","t","h","e","m","."," ","D","o"," ","n","o","t"," ","i","n","c","l","u","d","e"," ","a","n","y"," ","o","t","h","e","r"," ","t","e","x","t"," ","o","r"," ","e","x","p","l","a","n","a","t","i","o","n">>

AimPrompt(topic) == <<"E","x","p","l","a","i","n"," ">> \o topic \o <<" ","i","n"," ","o","n","e"," ","c","l","e","a","r",","," ","c","o","n","c","i","s","e"," ","s","e","n","t","e","n","c","e",".">>

TopicPrompt(point, topic) == <<"E","x","p","l","a","i","n"," ","'">> \o point \o <<"'"," ","r","e","l","a","t","e","d"," ","t","o"," ">> \o topic \o <<" ","i","n"," ","4","-","5"," ","b","u","l","l","e","t"," ","p","o","i","n","t","s","."," ","K","e","e","p"," ","e","a","c","h"," ","p","o","i","n","t"," ","b","r","i","e","f",".">>

ConclusionPrompt(topic) == <<"W","r","i","t","e"," ","a"," ","c","o","n","c","i","s","e"," ","c","o","n","c","l","u","s","i","o","n"," ","(","3","-","4"," ","s","e","n","t","e","n","c","e","s",")"," ","f","o","r"," ","a"," ","p","r","e","s","e","n","t","a","t","i","o","n"," ","a","b","o","u","t"," ">> \o topic \o <<".">>

\* the three sub-bullets used when fewer than 3 were extracted
TemplateSubBullets(point) ==
    <<<<"I","m","p","o","r","t","a","n","t"," ","a","s","p","e","c","t"," ","o","f"," ">> \o point, <<"K","e","y"," ","d","e","v","e","l","o","p","m","e","n","t"," ","r","e","l","a","t","e","d"," ","t","o"," ">> \o point, <<"S","i","g","n","i","f","i","c","a","n","t"," ","i","m","p","a","c","t"," ","o","f"," ">> \o point>>

\* F applied to the value of e, with e evaluated once
Bind(e, F(_)) == CHOOSE y \in {F(v) : v \in {e}} : TRUE

\* one call generate_response(prompt) from a slide generator: how it ends,
\* what it returns, and the cache and the requests it leaves behind
Respond(cache, reqs, prompt, outcome) ==
    Bind(prompt, LAMBDA p :
        IF CacheHit(cache, p)
        THEN [kind |-> "return", ret |-> cache[p], raised |-> "none",
              cache |-> cache, requests |-> reqs]
        ELSE Bind(TryBlock(outcome), LAMBDA try :
             Bind(MissResult(p, try), LAMBDA res :
                 [kind |-> res.kind, ret |-> res.ret, raised |-> try.raised,
                  cache |-> CacheAfterMiss(cache, p, try), requests |-> Append(reqs, p)])))

\* [f"• {point}" for point in bullet_points]
PrefixBullets(points) == [i \in 1..Len(points) |-> <<"BULLET", " ">> \o points[i]]

\* PrefixBullets with the three fallback bullets when there are fewer than 3
PrefixBullets_Padded(points) ==
    IF Len(points) < 3 THEN _extract_bullet_points(FallbackBullets) ELSE points

\* the bullet points of generate_preview_slide: the first request, the retry
\* when it gave fewer than 3 bullets, and the prefixing when the retry also
\* gave fewer than 3
PreviewBullets(cache, reqs, topic, o1, o2) ==
    Bind(Respond(cache, reqs, PreviewPrompt(topic), o1), LAMBDA r1 :
    Bind(_extract_bullet_points(r1.ret), LAMBDA b1 :
        IF r1.kind = "raise"
        THEN [kind |-> "raise", raised |-> r1.raised, bullet_points |-> <<>>,
              cache |-> r1.cache, requests |-> r1.requests]
        ELSE IF Len(b1) >= 3
        THEN [kind |-> "return", raised |-> "none", bullet_points |-> b1,
              cache |-> r1.cache, requests |-> r1.requests]
        ELSE Bind(Respond(r1.cache, r1.requests, RetryPrompt(topic), o2), LAMBDA r2 :
             Bind(_extract_bullet_points(r2.ret), LAMBDA b2 :
                 IF r2.kind = "raise"
                 THEN [kind |-> "raise", raised |-> r2.raised, bullet_points |-> <<>>,
                       cache |-> r2.cache, requests |-> r2.requests]
                 ELSE [kind |-> "return", raised |-> "none",
                       bullet_points |-> IF Len(b2) < 3 THEN PrefixBullets(b2) ELSE b2,
                       cache |-> r2.cache, requests |-> r2.requests]))))

\* the sub-bullets of one topic slide
SubBullets(point, response_text) ==
    Bind(_extract_bullet_points(response_text), LAMBDA sub_bullet_points :
        IF Len(sub_bullet_points) < 3
        THEN TemplateSubBullets(point)
        ELSE sub_bullet_points)

RECURSIVE TopicSlides(_, _, _, _, _)
\* the loop of generate_topic_slides from point i on; st is the cache, the
\* requests and the slides so far; os[i] is what ollama.chat does for point i
TopicSlides(points, topic, os, i, st) ==
    IF i > Len(points) \/ st.kind = "raise" THEN st
    ELSE Bind(Respond(st.cache, st.requests, TopicPrompt(points[i], topic), os[i]), LAMBDA r :
         Bind(IF r.kind = "raise"
              THEN [kind |-> "raise", raised |-> r.raised, cache |-> r.cache,
                    requests |-> r.requests, slides |-> st.slides]
              ELSE [kind |-> "return", raised |-> "none", cache |-> r.cache,
                    requests |-> r.requests,
                    slides |-> Append(st.slides,
                        Slide(6, points[i], BulletParagraphs(SubBullets(points[i], r.ret))))],
              LAMBDA next : TopicSlides(points, topic, os, i + 1, next)))

\* CaughtBySave with no handler
CaughtBySave_Never(exc) == FALSE

\* the exception classes `except Exception` of save catches
CaughtBySave(exc) == exc \in {"PermissionError", "FileNotFoundError"}

\* the exception classes `except Exception` of generate_presentation catches
CaughtByRun(exc) ==
    exc \in {"ConnectionError", "ResponseError", "TypeError", "PermissionError", "FileNotFoundError"}

\* what the caller observes of a call of generate_presentation or save
SaveCall(op, arg, exc, kind, value) ==
    [op |-> op, output_path |-> arg, exc |-> exc, kind |-> kind, value |-> value]

\* the run ends in the except block of generate_presentation, or with an
\* exception that it does not catch
RunFails(exc) ==
    /\ history' = Append(history,
           SaveCall("generate_presentation", output_path, exc,
                    IF CaughtByRun(exc) THEN "return" ELSE "raise", None))
    /\ pc' = "done"

\* self.create_title_slide()
CreateTitleSlide ==
    /\ pc = "title"
    /\ slides' = Append(slides, Slide(0, text, <<>>))
    /\ pc' = "preview"
    /\ UNCHANGED <<response_cache, requests, history, text, result, segs>>
    /\ UNCHANGED <<bullet_points, files, pdf, extractor, output_path>>

\* title, bullet_points = self.generate_preview_slide()
GeneratePreviewSlide(o1, o2) ==
    /\ pc = "preview"
    /\ \E r \in {PreviewBullets(response_cache, requests, text, o1, o2)} :
           /\ response_cache' = r.cache
           /\ requests' = r.requests
           /\ IF r.kind = "raise"
              THEN /\ RunFails(r.raised)
                   /\ UNCHANGED <<slides, bullet_points>>
              ELSE /\ bullet_points' = r.bullet_points
                   /\ slides' = Append(slides,
                          Slide(6, TitlePreview, BulletParagraphs(r.bullet_points)))
                   /\ pc' = "aim"
                   /\ UNCHANGED history
    /\ UNCHANGED <<text, result, segs, files, pdf, extractor, output_path>>

\* title, aim_text = self.generate_aim_slide()
GenerateAimSlide(o) ==
    /\ pc = "aim"
    /\ \E r \in {Respond(response_cache, requests, AimPrompt(text), o)} :
           /\ response_cache' = r.cache
           /\ requests' = r.requests
           /\ IF r.kind = "raise"
              THEN /\ RunFails(r.raised)
                   /\ UNCHANGED slides
              ELSE /\ slides' = Append(slides,
                          Slide(6, TitleAim, <<Paragraph(r.ret, 0, FALSE)>>))
                   /\ pc' = "topics"
                   /\ UNCHANGED history
    /\ UNCHANGED <<text, result, segs, bullet_points, files, pdf, extractor, output_path>>

\* topics = self.generate_topic_slides(bullet_points)
GenerateTopicSlides(os) ==
    /\ pc = "topics"
    /\ \E r \in {TopicSlides(bullet_points, text, os, 1,
                        [kind |-> "return", raised |-> "none", cache |-> response_cache,
                         requests |-> requests, slides |-> slides])} :
           /\ response_cache' = r.cache
           /\ requests' = r.requests
           /\ slides' = r.slides
           /\ IF r.kind = "raise"
              THEN RunFails(r.raised)
              ELSE pc' = "conclusion" /\ UNCHANGED history
    /\ UNCHANGED <<text, result, segs, bullet_points, files, pdf, extractor, output_path>>

\* title, conclusion = self.generate_conclusion_slide()
GenerateConclusionSlide(o) ==
    /\ pc = "conclusion"
    /\ \E r \in {Respond(response_cache, requests, ConclusionPrompt(text), o)} :
           /\ response_cache' = r.cache
           /\ requests' = r.requests
           /\ IF r.kind = "raise"
              THEN /\ RunFails(r.raised)
                   /\ UNCHANGED slides
              ELSE /\ slides' = Append(slides,
                          Slide(6, TitleConclusion, <<Paragraph(r.ret, 0, FALSE)>>))
                   /\ pc' = "thanks"
                   /\ UNCHANGED history
    /\ UNCHANGED <<text, result, segs, bullet_points, files, pdf, extractor, output_path>>

\* title = self.generate_thank_you_slide()
GenerateThankYouSlide ==
    /\ pc = "thanks"
    /\ slides' = Append(slides, Slide(6, TitleThankYou, <<Paragraph(ThankYouText, 0, FALSE)>>))
    /\ pc' = "save"
    /\ UNCHANGED <<response_cache, requests, history, text, result, segs>>
    /\ UNCHANGED <<bullet_points, files, pdf, extractor, output_path>>

\* the end of generate_presentation: the path is chosen, self.prs.save writes
\* the file or raises exc, and the path or None is returned
SavePresentation(exc) ==
    /\ pc = "save"
    /\ IF exc = "none"
       THEN /\ files' = files \cup {ChoosePath(output_path, text)}
            /\ history' = Append(history,
                   SaveCall("generate_presentation", output_path, exc, "return",
                            Str(ChoosePath(output_path, text))))
            /\ pc' = "done"
       ELSE /\ RunFails(exc)
            /\ UNCHANGED files
    /\ UNCHANGED <<response_cache, requests, text, result, segs>>
    /\ UNCHANGED <<slides, bullet_points, pdf, extractor, output_path>>

\* one call save(arg) after the run
Save(arg, exc) ==
    /\ pc = "done"
    /\ IF exc = "none"
       THEN /\ files' = files \cup {ChoosePath(arg, text)}
            /\ history' = Append(history,
                   SaveCall("save", arg, exc, "return", Str(ChoosePath(arg, text))))
       ELSE /\ history' = Append(history,
                   SaveCall("save", arg, exc,
                            IF CaughtBySave(exc) THEN "return" ELSE "raise", None))
            /\ UNCHANGED files
    /\ pc' = "saved"
    /\ UNCHANGED <<response_cache, requests, text, result, segs>>
    /\ UNCHANGED <<slides, bullet_points, pdf, extractor, output_path>>

-----------------------------------------------------------------------------
(* Runs of generate_presentation, followed by one call of save.            *)

TopicAI == <<"A","I">>
TopicMixed == <<"a","-","b","_","1"," ","x">>
Topics == {TopicAI, TopicMixed}

PathGiven == <<"o","u","t",".","p","p","t","x">>
OutputPaths == {None, Str(<<>>), Str(PathGiven)}

TextThreeBullets == <<"BULLET"," ","P","1","\n","BULLET"," ","P","2","\n","BULLET"," ","P","3">>
TextOneLine == <<"A">>

\* ollama.chat answers with an object whose .message.content is t
Answer(t) == [raises |-> "none", response |-> Response(FALSE, TRUE, FALSE, TRUE, Str(t), <<>>, <<>>)]

\* ollama.chat answers with an object whose .message.content is None
AnswerNone == [raises |-> "none", response |-> Response(FALSE, TRUE, FALSE, TRUE, None, <<>>, <<>>)]

\* what ollama.chat does during a run: the answers have text that is not
\* empty after cleaning
RunOutcomes == {Unreachable, AnswerNone, Answer(TextThreeBullets), Answer(TextOneLine)}

\* what ollama.chat does for the slides after the preview
SlideOutcomes == {Unreachable, Answer(TextOneLine)}

WriteOutcomes == {"none", "PermissionError", "FileNotFoundError"}

InitPresent ==
    /\ pc = "title"
    /\ response_cache = << >>
    /\ requests = << >>
    /\ history = << >>
    /\ text \in Topics
    /\ result = << >>
    /\ segs = << >>
    /\ slides = << >>
    /\ bullet_points = << >>
    /\ files = {}
    /\ pdf = << >>
    /\ extractor = [constructed |-> FALSE]
    /\ output_path \in OutputPaths

NextPresent ==
    \/ CreateTitleSlide
    \/ \E o1, o2 \in RunOutcomes : GeneratePreviewSlide(o1, o2)
    \/ \E o \in SlideOutcomes : GenerateAimSlide(o)
    \/ \E os \in [1..Len(bullet_points) -> SlideOutcomes] : GenerateTopicSlides(os)
    \/ \E o \in SlideOutcomes : GenerateConclusionSlide(o)
    \/ GenerateThankYouSlide
    \/ \E exc \in WriteOutcomes : SavePresentation(exc)
    \/ \E arg \in OutputPaths, exc \in WriteOutcomes : Save(arg, exc)

SpecPresent == InitPresent /\ [][NextPresent]_vars

-----------------------------------------------------------------------------
(* PDFExtractor (src/pdf_to_ppt_backup.py).  A document is the sequence of *)
(* its pages; a page is the text of its text layer (what get_text("text")  *)
(* returns) and the text that OCR reads from its image.                    *)

\* is_scanned_pdf looking at every page
is_scanned_pdf_AllPages(doc) == \A k \in 1..Len(doc) : Len(Strip(doc[k].text)) = 0

\* len(doc[0].get_text("text").strip()) == 0
is_scanned_pdf(doc) == Len(Strip(doc[1].text)) = 0

\* one opening of the document: the method that opens it and the call used
Open(by, with) == [by |-> by, with |-> with]

\* "\n".join([page.get_text("text") for page in doc])
extract_text_from_normal_pdf(doc) == Join([k \in 1..Len(doc) |-> doc[k].text], "\n")

\* "\n".join([pytesseract.image_to_string(img) for img in images])
extract_text_from_scanned_pdf(doc) == Join([k \in 1..Len(doc) |-> doc[k].ocr], "\n")

\* extract_text with the branch taken on the stored self.is_scanned
extract_text_UsesStored(stored, doc) ==
    IF stored
    THEN [text |-> extract_text_from_scanned_pdf(doc),
          opens |-> <<Open("extract_text_from_scanned_pdf", "convert_from_path")>>]
    ELSE [text |-> extract_text_from_normal_pdf(doc),
          opens |-> <<Open("extract_text_from_normal_pdf", "fitz.open")>>]

\* extract_text: the text it returns and the openings of the document it
\* makes; it calls is_scanned_pdf itself and does not read self.is_scanned
\* (stored)
extract_text(stored, doc) ==
    IF is_scanned_pdf(doc)
    THEN [text |-> extract_text_from_scanned_pdf(doc),
          opens |-> <<Open("is_scanned_pdf", "fitz.open"),
                      Open("extract_text_from_scanned_pdf", "convert_from_path")>>]
    ELSE [text |-> extract_text_from_normal_pdf(doc),
          opens |-> <<Open("is_scanned_pdf", "fitz.open"),
                      Open("extract_text_from_normal_pdf", "fitz.open")>>]

\* PDFExtractor(pdf_path): self.is_scanned = self.is_scanned_pdf(pdf_path),
\* then self.text = self.extract_text(pdf_path)
ConstructExtractor ==
    /\ pc = "pdf"
    /\ extractor' = [constructed |-> TRUE,
                     is_scanned |-> is_scanned_pdf(pdf),
                     text |-> extract_text(is_scanned_pdf(pdf), pdf).text,
                     opens |-> <<Open("is_scanned_pdf", "fitz.open")>>
                                   \o extract_text(is_scanned_pdf(pdf), pdf).opens]
    /\ pc' = "constructed"
    /\ UNCHANGED <<response_cache, requests, history, text, result, segs>>
    /\ UNCHANGED <<slides, bullet_points, files, pdf, output_path>>

-----------------------------------------------------------------------------
(* Constructions of a PDFExtractor on one document.                        *)

PageScanned == [text |-> <<>>, ocr |-> <<"S">>]
PageBlankLayer == [text |-> <<" ", "\n">>, ocr |-> <<"S", "\n">>]
PageText == [text |-> <<"A", "\n">>, ocr |-> <<"A">>]
PagePadded == [text |-> <<" ", "b", " ">>, ocr |-> <<"b">>]
Pages == {PageScanned, PageBlankLayer, PageText, PagePadded}

\* the documents of 1 to MaxPages pages
Documents == SeqsUpTo(Pages, MaxPages)

InitPDF ==
    /\ pc = "pdf"
    /\ response_cache = << >>
    /\ requests = << >>
    /\ history = << >>
    /\ text = << >>
    /\ result = << >>
    /\ segs = << >>
    /\ slides = << >>
    /\ bullet_points = << >>
    /\ files = {}
    /\ pdf \in Documents
    /\ extractor = [constructed |-> FALSE]
    /\ output_path = None

NextPDF == ConstructExtractor

SpecPDF == InitPDF /\ [][NextPDF]_vars

-----------------------------------------------------------------------------
(* Properties of generate_response, checked under Spec.                    *)

\* the calls made so far, by position in history
Calls == 1..Len(history)

\* call i asked the model and the endpoint was unreachable
FailedUnreachable(i) == ~history[i].hit /\ history[i].outcome = Unreachable

\* calls i and i + 1 carry the same prompt and the endpoint is unreachable
\* during both
TwiceUnreachable(i) ==
    /\ i + 1 \in Calls
    /\ history[i].prompt = history[i + 1].prompt
    /\ FailedUnreachable(i)
    /\ history[i + 1].outcome = Unreachable

\* C1 as stated: with the endpoint unreachable, two calls with the same prompt
\* return the same fallback, the fallback is stored in the cache and the
\* second call sends no request.
C1_FallbackIsCached ==
    \A i \in Calls : TwiceUnreachable(i) =>
        /\ history[i + 1].ret = history[i].ret
        /\ history[i].cached
        /\ history[i + 1].nreq = history[i].nreq

\* C1 as amended: with the endpoint unreachable, two calls with the same
\* prompt return the same fallback string, but the fallback is not stored in
\* the cache and the second call sends one more request to the model.
C1_FallbackIsNotCached ==
    \A i \in Calls : TwiceUnreachable(i) =>
        /\ history[i + 1].ret = history[i].ret
        /\ history[i].kind = "return" /\ history[i + 1].kind = "return"
        /\ history[i].ret \in {FallbackBullets, FallbackOneLine, FallbackConclusion, FallbackGeneric}
        /\ ~history[i].cached /\ ~history[i + 1].cached
        /\ history[i + 1].nreq = history[i].nreq + 1

C1_Witness == \E i \in Calls : TwiceUnreachable(i) /\ history[i + 1].ret = FallbackBullets

\* C2 as stated: any two calls with the same prompt return the same string.
C2_SamePromptSameResponse ==
    \A i, j \in Calls :
        history[i].prompt = history[j].prompt => history[i].ret = history[j].ret

\* C2 as amended: once a call for a prompt has returned a response that is
\* not a fallback, every later call with that prompt returns the same string;
\* and two calls that both end in the fallback return the same string.
C2_SameResponseOnceGenerated ==
    \A i, j \in Calls :
        (i < j /\ history[i].prompt = history[j].prompt) =>
            /\ history[i].raised = "none" => history[j].ret = history[i].ret
            /\ (history[i].raised # "none" /\ history[j].raised # "none")
                   => history[j].ret = history[i].ret

C2_Witness ==
    \E i, j, k \in Calls :
        /\ i < j /\ j < k
        /\ history[i].prompt = history[j].prompt /\ history[j].prompt = history[k].prompt
        /\ history[i].raised # "none"
        /\ history[j].raised = "none" /\ ~history[j].hit
        /\ history[k].outcome # history[j].outcome
        /\ history[k].ret = history[j].ret
        /\ history[k].ret # history[i].ret

\* the step is a call generate_response(p)
IsCall(p) == Len(history') = Len(history) + 1 /\ history'[Len(history')].prompt = p

\* C3: a call whose prompt is a key of the cache returns the cached value,
\* sends no request to the model and leaves the cache unchanged.
C3_CacheHitReturnsCached ==
    [][\A p \in DOMAIN response_cache :
          IsCall(p) =>
              /\ history'[Len(history')].kind = "return"
              /\ history'[Len(history')].ret = response_cache[p]
              /\ requests' = requests
              /\ response_cache' = response_cache]_vars

C3_Witness ==
    \E i \in Calls :
        /\ i > 1
        /\ history[i].prompt \in {history[k].prompt : k \in {m \in 1..(i - 1) : history[m].cached}}
        /\ history[i].outcome.raises = "none"
        /\ history[i].ret = TextPlain

\* C4: an entry of the cache is never overwritten or removed, and no request
\* is sent for a prompt that has an entry.
C4_FirstResultWins ==
    [][\A p \in DOMAIN response_cache :
          /\ p \in DOMAIN response_cache'
          /\ response_cache'[p] = response_cache[p]
          /\ (requests' # requests => requests'[Len(requests')] # p)]_vars

C4_Witness ==
    \E i, j \in Calls :
        /\ i < j
        /\ history[i].cached /\ ~history[i].hit
        /\ history[j].prompt = history[i].prompt
        /\ history[j].outcome.raises = "none"
        /\ history[j].outcome # history[i].outcome
        /\ response_cache[history[i].prompt] = history[i].ret
        /\ Len(requests) < Len(history)

\* C5: every call ends by returning a string, never by raising: also when
\* the request raises, when the response has no message and when sanitizing
\* the payload raises.
C5_NeverRaises ==
    \A i \in Calls :
        /\ history[i].kind = "return"
        /\ history[i].raised # "none" => history[i].ret # <<>>

C5_Witness ==
    \E i, j, k \in Calls :
        /\ history[i].raised = "ConnectionError" /\ history[i].kind = "return"
        /\ history[j].raised = "TypeError" /\ history[j].kind = "return"
        /\ ~history[k].hit /\ history[k].raised = "none"
        /\ ~history[k].outcome.response.has_message

\* call i asked the model and got the response r
Answered(i, r) ==
    ~history[i].hit /\ history[i].outcome.raises = "none" /\ history[i].outcome.response = r

\* the response exposes a structured message content
Structured(r) == r.has_message /\ r.msg_has_content

\* C7 as stated: the payload is the structured content when there is one,
\* and in every other shape the text of the whole response, reduced to the
\* inner text of content='...' when the text contains one.
C7_TextFallbackForEveryOtherShape ==
    \A i \in Calls : \A r \in Responses : Answered(i, r) =>
        history[i].payload = IF Structured(r) THEN r.content ELSE Str(SearchContent(r.str))

\* C7 as amended: the payload is the structured content when there is one;
\* for a dict whose 'message' has no content it is the text of the message,
\* unchanged; for a dict without 'message' it is the text of the whole
\* response, reduced to the inner text of content='...' when it contains one;
\* for any other object it is the text of the whole response, unchanged.
C7_PayloadByShape ==
    \A i \in Calls : \A r \in Responses : Answered(i, r) =>
        history[i].payload =
            CASE Structured(r) -> r.content
              [] ~Structured(r) /\ r.isdict /\ r.has_message -> Str(r.msg_str)
              [] ~Structured(r) /\ r.isdict /\ ~r.has_message ->
                    IF Contains(r.str, ContentOpen) THEN Str(SearchContent(r.str)) ELSE Str(r.str)
              [] OTHER -> Str(r.str)

C7_Witness ==
    \E i, j \in Calls :
        /\ Answered(i, Response(TRUE, FALSE, FALSE, FALSE, None, <<>>, DictReprReply))
        /\ history[i].payload = Str(TextPlain)
        /\ Answered(j, Response(FALSE, FALSE, FALSE, FALSE, None, <<>>, ObjRepr))
        /\ history[j].payload = Str(ObjRepr)

-----------------------------------------------------------------------------
(* The choice of the fallback, checked under SpecFallback.                 *)

\* the prompt, lower-cased, contains the keyword
HasKeyword(prompt, kw) == Contains(Lower(prompt), kw)

\* C6: a call that ends in the fallback returns the three-bullet text if the
\* prompt contains "bullet points"; else the one-sentence text if it contains
\* "one line" or "one clear"; else the conclusion text if it contains
\* "conclusion"; else the generic message; upper and lower case alike.
C6_FallbackByKeywordPriority ==
    \A i \in Calls : history[i].raised # "none" =>
        LET p == history[i].prompt
            ret == history[i].ret
        IN  /\ HasKeyword(p, kw_bullet_points) => ret = FallbackBullets
            /\ (~HasKeyword(p, kw_bullet_points)
                    /\ (HasKeyword(p, kw_one_line) \/ HasKeyword(p, kw_one_clear)))
                   => ret = FallbackOneLine
            /\ (~HasKeyword(p, kw_bullet_points) /\ ~HasKeyword(p, kw_one_line)
                    /\ ~HasKeyword(p, kw_one_clear) /\ HasKeyword(p, kw_conclusion))
                   => ret = FallbackConclusion
            /\ (~HasKeyword(p, kw_bullet_points) /\ ~HasKeyword(p, kw_one_line)
                    /\ ~HasKeyword(p, kw_one_clear) /\ ~HasKeyword(p, kw_conclusion))
                   => ret = FallbackGeneric

C6_Witness ==
    \E i \in Calls :
        /\ history[i].raised = "ConnectionError"
        /\ history[i].prompt = FragConclusion \o FragBulletPoints
        /\ history[i].ret = FallbackBullets

-----------------------------------------------------------------------------
(* Properties of _clean_response, checked under SpecClean.                 *)

\* the lines of an output of _clean_response
OutLines(t) == IF t = <<>> THEN <<>> ELSE Split(t, "\n")

\* no two whitespace characters in a row
NoWhitespaceRun(t) ==
    \A i \in 1..(Len(t) - 1) : ~(t[i] \in Whitespace /\ t[i + 1] \in Whitespace)

\* no whitespace at either end
Trimmed(l) == l = <<>> \/ (l[1] \notin Whitespace /\ l[Len(l)] \notin Whitespace)

\* the line contains one of the API-echo fragments
EchoLine(l) ==
    Contains(l, model_eq) \/ Contains(l, created_at_eq) \/ Contains(l, done_eq) \/ Contains(l, message_eq)

\* the input is given line by line
IsLineInput == segs # <<>> /\ \A i \in 1..Len(segs) : segs[i].kind = "line"

\* the lines of a line input
InputLines == [i \in 1..Len(segs) |-> segs[i].s]

\* C8: when a line of the input contains model=, that line is not in the
\* output, and every other line that the empty, Example: and real-world
\* filters keep is a line of the output, in the order of the input.  Stated
\* for inputs whose lines are trimmed and have no whitespace runs, so that a
\* kept line appears unchanged.
C8_EchoLineRemovedOthersKept ==
    (/\ pc = "cleaned"
     /\ IsLineInput
     /\ \E i \in 1..Len(segs) : Contains(segs[i].s, model_eq)
     /\ \A i \in 1..Len(segs) : Trimmed(segs[i].s) /\ NoWhitespaceRun(segs[i].s))
        => OutLines(result) =
               SelectSeq(InputLines, LAMBDA l : ~Contains(l, model_eq) /\ l # <<>>
                                                /\ ~StartsWith(l, ExamplePrefix)
                                                /\ ~Contains(l, RealWorldPhrase))

\* the input has a **bold** or *italic* wrapper
HasWrapper == \E i \in 1..Len(segs) : segs[i].kind \in {"bold", "italic"}

\* the input with the markers of its wrappers left out
Unwrapped == Concat([i \in 1..Len(segs) |-> segs[i].s])

\* the text is what the steps after the markup removal leave unchanged
NormalText(t) ==
    /\ t # <<>>
    /\ ~Contains(t, EscapedNewline)
    /\ \A i \in 1..Len(Split(t, "\n")) :
          LET l == Split(t, "\n")[i]
          IN  /\ l # <<>>
              /\ Trimmed(l)
              /\ NoWhitespaceRun(l)
              /\ ~EchoLine(l)
              /\ ~StartsWith(l, ExamplePrefix)
              /\ ~Contains(l, RealWorldPhrase)

\* C10 as stated: the output has no * and holds the inner text of every
\* wrapper character for character.
C10_InnerTextPreserved ==
    (pc = "cleaned" /\ HasWrapper) =>
        /\ ~Contains(result, <<"*">>)
        /\ \A i \in 1..Len(segs) :
              segs[i].kind \in {"bold", "italic"} => Contains(result, segs[i].s)

\* C10 as amended: the markers of the wrappers are removed; the inner text is
\* kept character for character when the text without the markers is in the
\* normal form of the sanitizer (no whitespace run, no whitespace at the ends
\* of a line, no empty, echo, Example: or real-world line, no escaped
\* newline): the output is then exactly the text without the markers.
C10_MarkersRemovedNormalTextKept ==
    (pc = "cleaned" /\ HasWrapper) =>
        /\ ~Contains(result, <<"*">>)
        /\ NormalText(Unwrapped) => result = Unwrapped

C10_Witness ==
    /\ pc = "cleaned"
    /\ segs = <<[kind |-> "bold", s |-> <<"b">>], [kind |-> "plain", s |-> <<" ">>],
                [kind |-> "italic", s |-> <<"c", " ", "d">>]>>
    /\ result = <<"b", " ", "c", " ", "d">>

\* the number of * characters of a line
Stars(l) == Cardinality({i \in 1..Len(l) : l[i] = "*"})

\* the text has no emphasis markup left (no line with two * characters, which
\* is what either emphasis pattern needs) and no line with an echo fragment
OnceClean(t) ==
    \A i \in 1..Len(OutLines(t)) :
        Stars(OutLines(t)[i]) <= 1 /\ ~EchoLine(OutLines(t)[i])

\* C11: when the output of the sanitizer has no emphasis markup and no echo
\* fragment left, the sanitizer applied to that output returns it unchanged.
C11_IdempotentOnceClean ==
    (pc = "recleaned" /\ OnceClean(text)) => result = text

C11_Witness ==
    /\ pc = "recleaned"
    /\ OnceClean(text)
    /\ Contains(Render(segs), <<"*">>)
    /\ Contains(Render(segs), EscapedNewline)
    /\ text # <<>>
    /\ text # Render(segs)
    /\ result = text

\* the text with every line that contains an echo fragment made empty
BlankEcho(t) ==
    Join([i \in 1..Len(Split(t, "\n")) |->
             IF EchoLine(Split(t, "\n")[i]) THEN <<>> ELSE Split(t, "\n")[i]], "\n")

\* a line of the input shows an echo fragment only once the markers of its
\* wrappers are removed
MaskedEcho ==
    /\ HasWrapper
    /\ \A i \in 1..Len(Split(Render(segs), "\n")) : ~EchoLine(Split(Render(segs), "\n")[i])
    /\ \E i \in 1..Len(Split(Unwrapped, "\n")) : EchoLine(Split(Unwrapped, "\n")[i])

\* C12: a line that contains an echo fragment once the markers of its
\* wrappers are removed is discarded: no line of the output contains an echo
\* fragment, and the output is the one of the text without the markers and
\* without the content of those lines.
C12_MarkersDoNotMaskEcho ==
    (pc = "cleaned" /\ HasWrapper) =>
        /\ \A i \in 1..Len(OutLines(result)) : ~EchoLine(OutLines(result)[i])
        /\ result = _clean_response(BlankEcho(Unwrapped))

C12_Witness ==
    /\ pc = "cleaned"
    /\ MaskedEcho
    /\ segs = <<[kind |-> "plain", s |-> <<"A">>], [kind |-> "italic", s |-> <<"m", "o">>],
                [kind |-> "plain", s |-> <<"d", "e", "l", "=">>]>>
    /\ result = <<>>

-----------------------------------------------------------------------------
(* Properties of _extract_bullet_points, checked under SpecBullets.        *)

\* the text starts with <digits>.
HasNumberingPrefix(e) ==
    \E d \in 2..Len(e) : e[d] = "." /\ \A k \in 1..(d - 1) : e[k] \in Digits

\* the text starts with a bullet glyph or with <digits>.
StartsWithPrefix(e) == e # <<>> /\ (e[1] \in BulletGlyphs \/ HasNumberingPrefix(e))

\* text that carries no prefix and no emphasis marker
PlainBody(b) == ~StartsWithPrefix(b) /\ ~Contains(b, <<"*">>) /\ Trimmed(b)

\* C9 as stated: no element of the output starts with a bullet glyph or with
\* a <digits>. prefix.
C9_NoPrefixInOutput ==
    pc = "extracted" => \A i \in 1..Len(result) : ~StartsWithPrefix(result[i])

\* C9 as amended: for lines made of at most one bullet glyph, then at most one
\* <digits>. prefix, then text that starts with neither and has no * in it,
\* the output is the list of the non-empty texts, so no element starts with a
\* glyph or a numbering prefix.
C9_SinglePrefixesStripped ==
    (pc = "extracted" /\ \A i \in 1..Len(segs) : PlainBody(segs[i].body)) =>
        /\ result = SelectSeq([i \in 1..Len(segs) |-> segs[i].body], LAMBDA b : b # <<>>)
        /\ \A i \in 1..Len(result) : ~StartsWithPrefix(result[i])

C9_Witness ==
    /\ pc = "extracted"
    /\ segs = <<[glyph |-> <<"-", " ">>, number |-> <<"1", ".", " ">>, body |-> <<"A">>],
                [glyph |-> <<"BULLET", " ">>, number |-> <<>>, body |-> <<"3", " ", "d">>]>>
    /\ result = <<<<"A">>, <<"3", " ", "d">>>>

\* the line carries exactly one prefix (a glyph or a numbering) and then
\* non-empty plain text
OnePrefixLine(l) ==
    /\ (l.glyph = <<>>) # (l.number = <<>>)
    /\ l.body # <<>>
    /\ PlainBody(l.body)

\* the empty line
EmptyLine(l) == l.glyph = <<>> /\ l.number = <<>> /\ l.body = <<>>

\* the text "• A\n- B\n1. C\n\n"
ExampleText ==
    <<"BULLET", " ", "A", "\n", "-", " ", "B", "\n", "1", ".", " ", "C", "\n", "\n">>

\* C13: the text "• A\n- B\n1. C\n\n" gives <<"A", "B", "C">>; and when every
\* line is empty or carries exactly one prefix style followed by plain text,
\* the output is the list of the plain texts of the lines that are not empty,
\* in order.
C13_OnePrefixPerLine ==
    /\ (pc = "extracted" /\ text = ExampleText) => result = <<<<"A">>, <<"B">>, <<"C">>>>
    /\ (pc = "extracted" /\ \A i \in 1..Len(segs) : OnePrefixLine(segs[i]) \/ EmptyLine(segs[i]))
           => result = [i \in 1..Len(SelectSeq(segs, OnePrefixLine)) |->
                           SelectSeq(segs, OnePrefixLine)[i].body]

C13_Witness ==
    /\ pc = "extracted"
    /\ text = ExampleText
    /\ Len(segs) = 5
    /\ result = <<<<"A">>, <<"B">>, <<"C">>>>

-----------------------------------------------------------------------------
(* Properties of PDFExtractor, checked under SpecPDF.                      *)

\* the text layer of the first page has only whitespace
FirstPageBlank == \A k \in 1..Len(pdf[1].text) : pdf[1].text[k] \in Whitespace

\* C15: the document is classified scan-based exactly when the text of its
\* first page is empty after trimming; the other pages play no part.
C15_FirstPageDecides ==
    pc = "constructed" => (extractor.is_scanned <=> FirstPageBlank)

C15_Witness ==
    /\ pc = "constructed"
    /\ pdf = <<PageBlankLayer, PageText, PagePadded>>
    /\ extractor.is_scanned

\* the openings of the document made for the classification
ClassificationOpens == SelectSeq(extractor.opens, LAMBDA o : o.by = "is_scanned_pdf")

\* C16 as stated: constructing a PDFExtractor classifies the document once,
\* with one opening of the document for the classification.
C16_ClassifiedOnce ==
    pc = "constructed" => Len(ClassificationOpens) = 1

\* C16 as amended: constructing a PDFExtractor classifies the document twice,
\* once for self.is_scanned and once more inside extract_text, each time with
\* its own opening of the document; a third opening reads the pages.  The
\* two classifications of the same document agree, so the text is the OCR
\* text when self.is_scanned holds and the text of the text layers otherwise.
C16_ClassifiedTwice ==
    pc = "constructed" =>
        /\ Len(ClassificationOpens) = 2
        /\ Len(extractor.opens) = 3
        /\ extractor.opens[1].by = "is_scanned_pdf" /\ extractor.opens[2].by = "is_scanned_pdf"
        /\ extractor.opens[3].by = IF extractor.is_scanned
                                   THEN "extract_text_from_scanned_pdf"
                                   ELSE "extract_text_from_normal_pdf"
        /\ extractor.text = IF extractor.is_scanned
                            THEN Join([k \in 1..Len(pdf) |-> pdf[k].ocr], "\n")
                            ELSE Join([k \in 1..Len(pdf) |-> pdf[k].text], "\n")

C16_Witness ==
    /\ pc = "constructed"
    /\ pdf = <<PageScanned, PageText>>
    /\ extractor.is_scanned
    /\ extractor.text = <<"S", "\n", "A">>
    /\ Len(extractor.opens) = 3

-----------------------------------------------------------------------------
(* Properties of the slides and of saving, checked under SpecPresent.      *)

\* the preview slide has just been generated from a single answer
\* "• P1\n• P2\n• P3" of the model to the preview prompt
PreviewAnswered ==
    /\ pc = "aim"
    /\ PreviewPrompt(text) \in DOMAIN response_cache
    /\ response_cache[PreviewPrompt(text)] = TextThreeBullets

\* the texts of the paragraphs of slide n
ParagraphTexts(n) == [k \in 1..Len(slides[n].body) |-> slides[n].body[k].text]

\* C14 as stated: the bullet points are P1, P2, P3, one request was sent, and
\* no paragraph of the preview slide has an Example: line.
C14_NoExampleParagraph ==
    PreviewAnswered =>
        /\ bullet_points = <<<<"P","1">>, <<"P","2">>, <<"P","3">>>>
        /\ requests = <<PreviewPrompt(text)>>
        /\ \A k \in 1..Len(slides[2].body) : ~Contains(slides[2].body[k].text, ExamplePrefix)

\* C14 as amended: the bullet points are P1, P2, P3 and one request was sent;
\* the cleaned response has no Example: line; the preview slide shows every
\* bullet followed by the example sub-bullet that the generator adds to it.
C14_BulletsWithExampleSubBullets ==
    PreviewAnswered =>
        /\ bullet_points = <<<<"P","1">>, <<"P","2">>, <<"P","3">>>>
        /\ requests = <<PreviewPrompt(text)>>
        /\ ~Contains(response_cache[PreviewPrompt(text)], ExamplePrefix)
        /\ slides[2].title = TitlePreview
        /\ ParagraphTexts(2) =
               <<<<"BULLET"," ","P","1">>,
                 <<"BULLET"," ","E","x","a","m","p","l","e",":"," ","P","1"," ","i","n"," ","r","e","a","l","-","w","o","r","l","d"," ","a","p","p","l","i","c","a","t","i","o","n","s">>,
                 <<"BULLET"," ","P","2">>,
                 <<"BULLET"," ","E","x","a","m","p","l","e",":"," ","P","2"," ","i","n"," ","r","e","a","l","-","w","o","r","l","d"," ","a","p","p","l","i","c","a","t","i","o","n","s">>,
                 <<"BULLET"," ","P","3">>,
                 <<"BULLET"," ","E","x","a","m","p","l","e",":"," ","P","3"," ","i","n"," ","r","e","a","l","-","w","o","r","l","d"," ","a","p","p","l","i","c","a","t","i","o","n","s">>>>
        /\ \A k \in 1..6 : slides[2].body[k].level = (k + 1) % 2

C14_Witness ==
    /\ PreviewAnswered
    /\ bullet_points = <<<<"P","1">>, <<"P","2">>, <<"P","3">>>>
    /\ Len(requests) = 1
    /\ Len(slides) = 2
    /\ Len(slides[2].body) = 6

\* the calls of generate_presentation and save made so far
SaveCalls == {i \in 1..Len(history) : history[i].op \in {"generate_presentation", "save"}}

WriteFailures == {"PermissionError", "FileNotFoundError"}

\* C17: a call of generate_presentation or save never ends with an exception;
\* when writing the file failed it returns None; when it returns a path the
\* write succeeded and the file at that path was written.
C17_WriteFailureReturnsNone ==
    \A i \in SaveCalls :
        /\ history[i].kind = "return"
        /\ history[i].exc \in WriteFailures => history[i].value = None
        /\ history[i].value # None =>
              /\ history[i].exc = "none"
              /\ history[i].value.type = "str"
              /\ history[i].value.val \in files

C17_Witness ==
    /\ Len(history) = 2
    /\ history[1].op = "generate_presentation" /\ history[1].exc = "PermissionError"
    /\ history[1].value = None
    /\ history[2].op = "save" /\ history[2].exc = "FileNotFoundError"
    /\ history[2].value = None
    /\ files = {}

\* p is topic with every character that is not a letter or a digit replaced
\* by one underscore, followed by _presentation.pptx
IsDefaultPath(p, topic) ==
    /\ Len(p) = Len(topic) + Len(PresentationSuffix)
    /\ \A k \in 1..Len(topic) :
          IF topic[k] \in Letters \cup Digits THEN p[k] = topic[k] ELSE p[k] = "_"
    /\ SubSeq(p, Len(topic) + 1, Len(p)) = <<"_","p","r","e","s","e","n","t","a","t","i","o","n",".","p","p","t","x">>

\* C18: a call of generate_presentation or save that writes the file uses the
\* default path built from the topic when no path is given, and the given path
\* when a path that is not empty is given.
C18_DefaultPathFromTopic ==
    \A i \in SaveCalls :
        history[i].exc = "none" =>
            /\ history[i].output_path = None
                  => /\ IsDefaultPath(history[i].value.val, text)
                     /\ history[i].value.val \in files
            /\ (history[i].output_path # None /\ history[i].output_path.val # <<>>)
                  => /\ history[i].value.val = history[i].output_path.val
                     /\ history[i].value.val \in files

C18_Witness ==
    /\ Len(history) = 2
    /\ text = TopicMixed
    /\ history[1].op = "generate_presentation" /\ history[1].output_path = None
    /\ history[1].value = Str(<<"a","_","b","_","1","_","x","_","p","r","e","s","e","n","t","a","t","i","o","n",".","p","p","t","x">>)
    /\ history[2].op = "save" /\ history[2].output_path = Str(PathGiven)
    /\ history[2].value = Str(<<"o","u","t",".","p","p","t","x">>)

\* the run of generate_presentation has ended and every request to the model
\* failed: requests were sent and nothing was stored in the cache
EveryRequestFailed ==
    /\ history # <<>>
    /\ history[1].op = "generate_presentation"
    /\ requests # <<>>
    /\ response_cache = << >>

\* the titles of the slides
SlideTitles == [n \in 1..Len(slides) |-> slides[n].title]

\* C19: when every request of a run failed and writing the file did not fail,
\* generate_presentation returns the output path and the deck has the title,
\* preview, aim, three topic, conclusion and thank-you slides, filled from the
\* fallback texts.
C19_CompleteDeckFromFallbacks ==
    (EveryRequestFailed /\ history[1].exc \notin WriteFailures) =>
        /\ history[1].kind = "return"
        /\ history[1].value # None
        /\ history[1].value.val \in files
        /\ SlideTitles = <<text, <<"P","R","E","V","I","E","W">>, <<"A","I","M">>,
                           <<"I","m","p","o","r","t","a","n","t"," ","h","i","s","t","o","r","i","c","a","l"," ","m","i","l","e","s","t","o","n","e">>,
                           <<"K","e","y"," ","d","e","v","e","l","o","p","m","e","n","t"," ","i","n"," ","A","I">>,
                           <<"S","i","g","n","i","f","i","c","a","n","t"," ","i","n","n","o","v","a","t","i","o","n">>,
                           <<"C","O","N","C","L","U","S","I","O","N">>, <<"J","A","I"," ","H","I","N","D">>>>
        /\ ParagraphTexts(3) = <<FallbackOneLine>>
        /\ ParagraphTexts(7) = <<FallbackConclusion>>
        /\ \A n \in {2, 4, 5, 6} : Len(slides[n].body) = 6
        /\ Len(requests) = 6

C19_Witness ==
    /\ pc = "done"
    /\ EveryRequestFailed
    /\ history[1].exc = "none"
    /\ history[1].value = Str(PathGiven)
    /\ Len(slides) = 8
    /\ Len(requests) = 6

\* C20: after generate_preview_slide the list of bullet points has at least 3
\* elements, whatever the model answered to the first prompt and to the retry.
C20_AtLeastThreeBullets ==
    pc = "aim" => Len(bullet_points) >= 3

-----------------------------------------------------------------------------
(* The cache and the sanitizer, checked under Spec.                        *)

\* call i sent a request to the model and the request returned a response
RequestSucceeded(i) == ~history[i].hit /\ history[i].outcome.raises = "none"

\* the prompt of call i is cached with the cleaned payload of call i, and
\* call i returned that value
CachedCleanPayload(i) ==
    /\ history[i].cached
    /\ history[i].prompt \in DOMAIN response_cache
    /\ response_cache[history[i].prompt] = _clean_response(history[i].payload.val)
    /\ history[i].ret = response_cache[history[i].prompt]

\* the values _clean_response gives for the text payloads of the responses
CleanPayloads ==
    {_clean_response(ExtractPayload(r).val) : r \in {q \in Responses : ExtractPayload(q).type = "str"}}

\* C21 as stated: after a call whose request succeeded, the prompt is cached
\* with the cleaned payload and the call returned the cached value.
C21_SucceededRequestIsCached ==
    \A i \in Calls : RequestSucceeded(i) => CachedCleanPayload(i)

\* C21 as amended: after a call whose request succeeded with a payload that
\* is a string, the prompt is cached with the cleaned payload and the call
\* returned the cached value; when the payload is not a string the call
\* returns the fallback and caches nothing; every value in the cache is an
\* output of _clean_response.
C21_TextPayloadIsCachedClean ==
    /\ \A i \in Calls : RequestSucceeded(i) =>
           IF history[i].payload.type = "str"
           THEN CachedCleanPayload(i)
           ELSE /\ ~history[i].cached
                /\ history[i].raised = "TypeError"
                /\ history[i].ret \in {FallbackBullets, FallbackOneLine,
                                       FallbackConclusion, FallbackGeneric}
    /\ \A p \in DOMAIN response_cache : response_cache[p] \in CleanPayloads

C21_Witness ==
    \E i, j \in Calls :
        /\ RequestSucceeded(i)
        /\ history[i].payload = Str(TextBold)
        /\ response_cache[history[i].prompt] = TextPlain
        /\ history[i].ret = TextPlain
        /\ RequestSucceeded(j)
        /\ history[j].payload = None
        /\ history[j].prompt \notin DOMAIN response_cache

-----------------------------------------------------------------------------
(* The normal form of the output of _clean_response, checked under         *)
(* SpecClean.                                                              *)

\* the sanitizer has returned: result is an output of _clean_response
CleanReturned == pc \in {"cleaned", "recleaned"}

\* C22: in every output of _clean_response no line is empty or has
\* whitespace at its ends, no line starts with Example: or contains the
\* real-world phrase, there is no run of two whitespace characters and no
\* backslash followed by n.
C22_OutputNormalForm ==
    CleanReturned =>
        /\ \A i \in 1..Len(OutLines(result)) :
              /\ OutLines(result)[i] # <<>>
              /\ OutLines(result)[i][1] \notin Whitespace
              /\ OutLines(result)[i][Len(OutLines(result)[i])] \notin Whitespace
              /\ Len(OutLines(result)[i]) >= 8 =>
                    SubSeq(OutLines(result)[i], 1, 8) # <<"E","x","a","m","p","l","e",":">>
              /\ ~Contains(OutLines(result)[i], RealWorldPhrase)
        /\ \A k \in 1..(Len(result) - 1) :
              ~(result[k] \in Whitespace /\ result[k + 1] \in Whitespace)
        /\ \A k \in 1..(Len(result) - 1) : ~(result[k] = "\\" /\ result[k + 1] = "n")

C22_Witness ==
    /\ pc = "cleaned"
    /\ InputLines = <<LineExample, LineWide, LineRealWorld>>
    /\ result = <<"B", " ", "c">>

-----------------------------------------------------------------------------
(* Order and multiplicity of the bullet points, checked under SpecBullets. *)

\* the i-th input line as written, trimmed
TrimmedLine(i) == Strip(segs[i].glyph \o segs[i].number \o segs[i].body)

\* what the prefix and emphasis stripping leaves of the i-th input line
StrippedLine(i) == IF TrimmedLine(i) = <<>> THEN <<>> ELSE StripBulletLine(TrimmedLine(i))

\* the input lines that leave a bullet point, in input order
BulletLines == SelectSeq([i \in 1..Len(segs) |-> i], LAMBDA i : StrippedLine(i) # <<>>)

\* C23: the output has one element for every input line whose trimmed text
\* is not empty and is not emptied by the stripping, in input order: the
\* element is the stripped line, lines that are equal give equal elements
\* and the number of elements is not bounded.
C23_OrderAndMultiplicityKept ==
    pc = "extracted" =>
        /\ Len(result) = Cardinality({i \in 1..Len(segs) : StrippedLine(i) # <<>>})
        /\ \A k \in 1..Len(BulletLines) :
              k <= Len(result) /\ result[k] = StrippedLine(BulletLines[k])

C23_Witness ==
    /\ pc = "extracted"
    /\ segs = <<[glyph |-> <<"BULLET", " ">>, number |-> <<>>, body |-> <<"A">>],
                [glyph |-> <<"BULLET", " ">>, number |-> <<>>, body |-> <<"A">>],
                [glyph |-> <<>>, number |-> <<>>, body |-> <<>>],
                [glyph |-> <<"-", " ">>, number |-> <<>>, body |-> <<"B">>],
                [glyph |-> <<"BULLET", " ">>, number |-> <<>>, body |-> <<"A">>]>>
    /\ result = <<<<"A">>, <<"A">>, <<"B">>, <<"A">>>>

====
